---- MODULE Spec2Model ----
(***************************************************************************)
(* The bytecode compiler (compile, run_instructions) and the stack VM      *)
(* (VM::new, VM::execute) of src/src/vm.rs, with the value operations of   *)
(* src/src/types.rs and the error variants of src/src/error.rs.            *)
(*                                                                         *)
(* Indices are 0-based as in the source: ip and every jump target count    *)
(* from 0, so the instruction at ip is instructions[ip + 1].               *)
(***************************************************************************)
EXTENDS Integers, Sequences, FiniteSets, TLC

VARIABLES
    origin,        \* "none" | "compiler" | "bytecode": where instructions came from
    nodes,         \* the AST statements handed to run_instructions
    instructions,  \* the instruction sequence handed to execute
    stack,         \* VM.stack
    ip,            \* VM.ip
    env_stack,     \* VM.env_stack, innermost frame last
    scope_depth,   \* the local scope_depth of execute
    status,        \* "new" | "running" | "ok" | "err" | "panic"
    err,           \* the VMError execute returned
    hits,          \* hits[k]: how often instruction k-1 has been dispatched
    steps          \* instructions dispatched so far

vars == <<origin, nodes, instructions, stack, ip, env_stack, scope_depth,
          status, err, hits, steps>>

(***************************************************************************)
(* Bounds of the model.                                                    *)
(***************************************************************************)
MaxDepth == 2     \* nesting depth of the generated If/While/Block statements
MaxN == 5         \* largest loop bound N of the counting loop
MaxLen == 3       \* longest array / largest index of the array programs
MaxSteps == 90    \* instructions dispatched per run

(***************************************************************************)
(* Value (types.rs)                                                        *)
(***************************************************************************)
Number(n) == [t |-> "Number", n |-> n]
Boolean(b) == [t |-> "Boolean", b |-> b]
Array(a) == [t |-> "Array", a |-> a]
Null == [t |-> "Null"]

\* a truthiness that takes every nonzero Number for true
is_truthy_nonzero(v) ==
    CASE v.t = "Number" -> v.n # 0
      [] v.t = "Boolean" -> v.b
      [] v.t = "Array" -> v.a # <<>>
      [] v.t = "Null" -> FALSE

is_truthy(v) ==
    CASE v.t = "Number" -> v.n > 0
      [] v.t = "Boolean" -> v.b
      [] v.t = "Array" -> v.a # <<>>
      [] v.t = "Null" -> FALSE

(***************************************************************************)
(* VMError (error.rs, and the InvalidJump / StackOverflow variants vm.rs   *)
(* constructs).  Messages are kept as their fixed prefix.                  *)
(***************************************************************************)
NoError == [kind |-> "None"]
StackUnderflow == [kind |-> "StackUnderflow"]
StackOverflow == [kind |-> "StackOverflow"]
DivisionByZero == [kind |-> "DivisionByZero"]
NotAnArray == [kind |-> "NotAnArray"]
NoScopeToEnd == [kind |-> "NoScopeToEnd"]
TypeError(message) == [kind |-> "TypeError", message |-> message]
IndexError(index, len) == [kind |-> "IndexError", index |-> index, len |-> len]
UndefinedVariable(name) == [kind |-> "UndefinedVariable", name |-> name]
InvalidJump(target, max) == [kind |-> "InvalidJump", target |-> target, max |-> max]
ExecutionError(message, n) == [kind |-> "ExecutionError", message |-> message, n |-> n]

(***************************************************************************)
(* i32 arithmetic.  An overflowing a + b, a - b, a * b panics when the     *)
(* build checks overflow and wraps otherwise; both outcomes are kept.      *)
(* TLC's integers are 32 bits wide too, so overflow is detected            *)
(* and the wrapped result computed without leaving the i32 range.          *)
(***************************************************************************)
I32Max == 2147483647
I32Min == -I32Max - 1

AddOverflows(a, b) ==
    \/ (b > 0 /\ a > I32Max - b)
    \/ (b < 0 /\ a < I32Min - b)

\* a + b modulo 2^32, as a two's-complement i32
WrappingAdd(a, b) ==
    IF b > 0 /\ a > I32Max - b THEN (a + I32Min) + (b + I32Min)
    ELSE IF b < 0 /\ a < I32Min - b THEN (a - I32Min) + (b - I32Min)
    ELSE a + b

\* -b modulo 2^32
WrappingNeg(b) == IF b = I32Min THEN I32Min ELSE -b

SubOverflows(a, b) ==
    \/ (b < 0 /\ a > I32Max + b)
    \/ (b > 0 /\ a < I32Min + b)

WrappingSub(a, b) ==
    IF b = I32Min
    THEN (IF a >= 0 THEN I32Min + a ELSE a - I32Min)
    ELSE WrappingAdd(a, -b)

\* a * b modulo 2^32, from 16-bit halves so that no partial product leaves
\* the i32 range: with a = a1 * 2^16 + a0 and b = b1 * 2^16 + b0,
\* a * b = (a1 * b0 + a0 * b1) * 2^16 + a0 * b0  (mod 2^32)
WrappingMul(a, b) ==
    LET a0 == a % 65536
        a1 == a \div 65536
        b0 == b % 65536
        b1 == b \div 65536
        cross == (((a1 * b0) % 65536) + ((a0 * b1) % 65536)) % 65536
        \* a0 * b0 = t1 * 2^8 + t0 = high * 2^16 + low
        t1 == (a0 \div 256) * b0
        t0 == (a0 % 256) * b0
        s == ((t1 % 256) * 256) + t0
        high == (t1 \div 256) + (s \div 65536)
        low == s % 65536
        h == (cross + high) % 65536
    IN  IF h >= 32768 THEN ((h - 65536) * 65536) + low ELSE (h * 65536) + low

\* |a|, for a # I32Min
Abs(a) == IF a < 0 THEN -a ELSE a

MulOverflows(a, b) ==
    IF a = 0 \/ b = 0 THEN FALSE
    ELSE IF a = I32Min THEN b # 1
    ELSE IF b = I32Min THEN a # 1
    ELSE IF (a > 0) = (b > 0) THEN Abs(a) > I32Max \div Abs(b)
    ELSE \* the product is negative: it fits iff |a| * |b| <= 2^31
         /\ Abs(a) > I32Max \div Abs(b)
         /\ ~(Abs(a) = (I32Max \div Abs(b)) + 1 /\ I32Max % Abs(b) = Abs(b) - 1)

\* a / b of Rust: the quotient truncated toward zero (b # 0, no overflow).
\* \div rounds toward minus infinity; a negative inexact quotient is one short.
TruncDiv(a, b) ==
    LET q == a \div b
    IN  IF q < 0 /\ (q + 1) * b # a + b THEN q + 1 ELSE q

(***************************************************************************)
(* VMBinaryOp / VMCompare for Value (types.rs).  Each operation yields the *)
(* set of outcomes the build can produce.                                  *)
(***************************************************************************)
Ok(v) == [r |-> "ok", v |-> v]
Err(e) == [r |-> "err", e |-> e]
Panicked == [r |-> "panic"]

BothNumbers(a, b) == a.t = "Number" /\ b.t = "Number"

add(a, b) ==
    IF BothNumbers(a, b)
    THEN IF AddOverflows(a.n, b.n)
         THEN {Panicked, Ok(Number(WrappingAdd(a.n, b.n)))}
         ELSE {Ok(Number(a.n + b.n))}
    ELSE {Err(TypeError("Cannot add"))}

sub(a, b) ==
    IF BothNumbers(a, b)
    THEN IF SubOverflows(a.n, b.n)
         THEN {Panicked, Ok(Number(WrappingSub(a.n, b.n)))}
         ELSE {Ok(Number(a.n - b.n))}
    ELSE {Err(TypeError("Cannot subtract"))}

mul(a, b) ==
    IF BothNumbers(a, b)
    THEN IF MulOverflows(a.n, b.n)
         THEN {Panicked, Ok(Number(WrappingMul(a.n, b.n)))}
         ELSE {Ok(Number(a.n * b.n))}
    ELSE {Err(TypeError("Cannot multiply"))}

div(a, b) ==
    IF BothNumbers(a, b)
    THEN IF b.n = 0 THEN {Err(DivisionByZero)}
         ELSE IF a.n = I32Min /\ b.n = -1 THEN {Panicked}
         ELSE {Ok(Number(TruncDiv(a.n, b.n)))}
    ELSE {Err(TypeError("Cannot divide"))}

eq(a, b) == is_truthy(a) = is_truthy(b)

\* a > that falls back to truthiness when an operand is not a Number
gt_by_truthiness(a, b) ==
    IF BothNumbers(a, b) THEN {Ok(Boolean(a.n > b.n))}
    ELSE {Ok(Boolean(is_truthy(a) /\ ~is_truthy(b)))}

lt(a, b) ==
    IF BothNumbers(a, b) THEN {Ok(Boolean(a.n < b.n))}
    ELSE {Err(TypeError("Cannot compare with <"))}

gt(a, b) ==
    IF BothNumbers(a, b) THEN {Ok(Boolean(a.n > b.n))}
    ELSE {Err(TypeError("Cannot compare with >"))}

(***************************************************************************)
(* Instruction (vm.rs).  The usize carried by ArrayOperation::Get/Set is   *)
(* always 0 and never read, so it is not kept.                             *)
(***************************************************************************)
Ins(op) == [op |-> op]
InsPush(v) == [op |-> "Push", v |-> v]
InsJmp(target) == [op |-> "Jmp", target |-> target]
InsJz(target) == [op |-> "Jz", target |-> target]
InsLabel(name) == [op |-> "Label", name |-> name]
InsStore(name) == [op |-> "Store", name |-> name]
InsLoad(name) == [op |-> "Load", name |-> name]
InsArrayOp(aop) == [op |-> "ArrayOp", aop |-> aop]

IsJump(ins) == ins.op \in {"Jmp", "Jz"}

(***************************************************************************)
(* ASTNode (ast.rs).  Token operators are kept by their token name.        *)
(***************************************************************************)
AstNumber(n) == [k |-> "Number", n |-> n]
AstBinOp(left, op, right) == [k |-> "BinOp", left |-> left, op |-> op, right |-> right]
AstIf(condition, if_block, else_block) ==
    [k |-> "If", condition |-> condition, if_block |-> if_block, else_block |-> else_block]
AstWhile(condition, body) == [k |-> "While", condition |-> condition, body |-> body]
AstVarDecl(name, value) == [k |-> "VarDecl", name |-> name, value |-> value]
AstVarAssign(name, value) == [k |-> "VarAssign", name |-> name, value |-> value]
AstVarRef(name) == [k |-> "VarRef", name |-> name]
AstBlock(blk) == [k |-> "Block", nodes |-> blk]
AstArray(elements) == [k |-> "Array", elements |-> elements]
AstArrayIndex(array, index) == [k |-> "ArrayIndex", array |-> array, index |-> index]
AstArrayAssign(array, index, value) ==
    [k |-> "ArrayAssign", array |-> array, index |-> index, value |-> value]

BinOpcode(op) ==
    CASE op = "Plus" -> "Add"
      [] op = "Minus" -> "Sub"
      [] op = "Star" -> "Mul"
      [] op = "Slash" -> "Div"
      [] op = "Greater" -> "Greater"
      [] op = "Less" -> "Less"
      [] op = "Equal" -> "Equal"
      [] op = "NotEqual" -> "NotEqual"

(***************************************************************************)
(* compile (vm.rs): AST node -> instruction sequence.  compile_all is the  *)
(* into_iter().flat_map(compile).collect() of a statement list.            *)
(* ASTNode::String compiles to Value::String, which types.rs does not      *)
(* define; string literals are left out.                                   *)
(***************************************************************************)
RECURSIVE compile(_), compile_all(_), compile_array(_)

compile_if(node) ==
    LET cond == compile(node.condition)
        if_instructions == compile_all(node.if_block)
        else_instructions == compile_all(node.else_block)
        else_start == Len(cond) + Len(if_instructions) + 2
        after_else == else_start + Len(else_instructions)
    IN  cond \o <<InsJz(else_start)>> \o if_instructions
             \o <<InsJmp(after_else)>> \o else_instructions

compile_while(node) ==
    LET condition_start == 0
        cond == compile(node.condition)
        jz_placeholder_index == Len(cond)
        body_instructions == compile_all(node.body)
        body_len == Len(body_instructions)
        after_loop == jz_placeholder_index + 1 + body_len + 1
    IN  cond \o <<InsJz(after_loop)>> \o body_instructions
             \o <<InsJmp(condition_start)>>

compile(node) ==
    CASE node.k = "Number" -> <<InsPush(Number(node.n))>>
      [] node.k = "BinOp" ->
            compile(node.left) \o compile(node.right) \o <<Ins(BinOpcode(node.op))>>
      [] node.k = "If" -> compile_if(node)
      [] node.k = "While" -> compile_while(node)
      [] node.k = "VarDecl" -> compile(node.value) \o <<InsStore(node.name)>>
      [] node.k = "VarAssign" -> compile(node.value) \o <<InsStore(node.name)>>
      [] node.k = "VarRef" -> <<InsLoad(node.name)>>
      [] node.k = "Block" ->
            <<Ins("BeginScope")>> \o compile_all(node.nodes) \o <<Ins("EndScope")>>
      [] node.k = "Array" -> <<Ins("CreateArray")>> \o compile_array(node.elements)
      [] node.k = "ArrayIndex" ->
            compile(node.array) \o compile(node.index) \o <<InsArrayOp("Get")>>
      [] node.k = "ArrayAssign" ->
            compile(node.array) \o compile(node.index) \o compile(node.value)
                \o <<InsArrayOp("Set")>>

compile_all(ns) ==
    IF ns = <<>> THEN <<>> ELSE compile(Head(ns)) \o compile_all(Tail(ns))

\* the loop of the Array arm: each element, then ArrayOp(Push)
compile_array(elements) ==
    IF elements = <<>> THEN <<>>
    ELSE compile(Head(elements)) \o <<InsArrayOp("Push")>>
             \o compile_array(Tail(elements))

(***************************************************************************)
(* run_instructions (vm.rs): the statements' sequences concatenated, every *)
(* Jmp/Jz target of a statement raised by the offset of that statement.    *)
(***************************************************************************)
\* a rewrite that leaves the targets as compile produced them
add_offset_none(node_instructions, offset) == node_instructions

add_offset(node_instructions, offset) ==
    [j \in 1..Len(node_instructions) |->
        IF IsJump(node_instructions[j])
        THEN [node_instructions[j] EXCEPT !.target = @ + offset]
        ELSE node_instructions[j]]

RECURSIVE run_from(_, _)
run_from(ns, offset) ==
    IF ns = <<>> THEN <<>>
    ELSE LET node_instructions == compile(Head(ns))
         IN  add_offset(node_instructions, offset)
                 \o run_from(Tail(ns), offset + Len(node_instructions))

run_instructions(ns) == run_from(ns, 0)

(***************************************************************************)
(* VM (vm.rs)                                                              *)
(***************************************************************************)
max_stack_size == 4000

EmptyFrame == <<>>
Bound(frame, name) == name \in DOMAIN frame
Insert(frame, name, value) == (name :> value) @@ frame

\* a lookup in which the outermost frame that binds name decides
get_var_outermost(envs, name) ==
    LET binding == {k \in DOMAIN envs : Bound(envs[k], name)}
    IN  IF binding = {} THEN [found |-> FALSE]
        ELSE LET k == CHOOSE i \in binding : \A j \in binding : i <= j
             IN  [found |-> TRUE, value |-> envs[k][name]]

\* VM::get_var: the innermost frame that binds name decides
RECURSIVE get_var(_, _)
get_var(envs, name) ==
    IF envs = <<>> THEN [found |-> FALSE]
    ELSE LET env == envs[Len(envs)]
         IN  IF Bound(env, name) THEN [found |-> TRUE, value |-> env[name]]
             ELSE get_var(SubSeq(envs, 1, Len(envs) - 1), name)

\* check_array_bounds with the upper bound one too low
check_array_bounds_off_by_one(idx, len) ==
    IF idx < 0 \/ idx >= len - 1 THEN Err(IndexError(idx, len)) ELSE Ok(idx)

\* VM::check_array_bounds
check_array_bounds(idx, len) ==
    IF idx < 0 \/ idx >= len THEN Err(IndexError(idx, len)) ELSE Ok(idx)

Top(s) == s[Len(s)]
DropLast(s, k) == SubSeq(s, 1, Len(s) - k)

Fetch == instructions[ip + 1]

\* loops that push without popping: through VM::push, and through the Load arm
PushLoop == <<InsPush(Number(1)), InsJmp(0)>>
LoadLoop == <<InsPush(Number(1)), InsStore("x"), InsLoad("x"), InsJmp(2)>>
DeepBytecodes == {PushLoop, LoadLoop}

\* the two loops run until the stack is past max_stack_size, every other
\* sequence for MaxSteps instructions
StepBudget ==
    IF instructions \in DeepBytecodes THEN 2 * max_stack_size + 8 ELSE MaxSteps

\* the loop of execute has fetched an instruction with this opcode
Dispatch(op) ==
    /\ status = "running"
    /\ steps < StepBudget
    /\ ip < Len(instructions)
    /\ Fetch.op = op
    /\ hits' = [hits EXCEPT ![ip + 1] = @ + 1]
    /\ steps' = steps + 1
    /\ UNCHANGED <<origin, nodes, instructions>>

\* the arm ran to its end: self.ip += 1
Advance == ip' = ip + 1 /\ status' = "running" /\ err' = err
\* the arm set self.ip and continued
Goto(target) == ip' = target /\ status' = "running" /\ err' = err
\* an error return that still moves past the failing instruction
Raise_advances(e) == ip' = ip + 1 /\ status' = "err" /\ err' = e
\* the arm returned Err(e)
Raise(e) == ip' = ip /\ status' = "err" /\ err' = e
\* the arm panicked
Abort == ip' = ip /\ status' = "panic" /\ err' = err

(***************************************************************************)
(* VM::new, and the two ways an instruction sequence comes to be.          *)
(***************************************************************************)
Init ==
    /\ origin = "none"
    /\ nodes = <<>>
    /\ instructions = <<>>
    /\ stack = <<>>
    /\ ip = 0
    /\ env_stack = <<EmptyFrame>>
    /\ scope_depth = 0
    /\ status = "new"
    /\ err = NoError
    /\ hits = <<>>
    /\ steps = 0

\* execute is entered with `instrs`: scope_depth starts at 0, ip is the VM's
ExecuteEntry(instrs) ==
    /\ instructions' = instrs
    /\ hits' = [k \in 1..Len(instrs) |-> 0]
    /\ scope_depth' = 0
    /\ status' = "running"
    /\ UNCHANGED <<stack, ip, env_stack, err, steps>>

(***************************************************************************)
(* VM::execute, one action per arm of the match.  An arm that fails after  *)
(* popping leaves the stack without the popped values.                     *)
(***************************************************************************)
\* VM::push, used by the Push arm alone
ExecPush ==
    /\ Dispatch("Push")
    /\ IF Len(stack) >= max_stack_size
       THEN Raise(StackOverflow) /\ stack' = stack
       ELSE stack' = Append(stack, Fetch.v) /\ Advance
    /\ UNCHANGED <<env_stack, scope_depth>>

\* a Pop arm that passes over an empty stack
ExecPop_passes_empty ==
    /\ Dispatch("Pop")
    /\ IF stack = <<>>
       THEN Advance /\ stack' = stack
       ELSE stack' = DropLast(stack, 1) /\ Advance
    /\ UNCHANGED <<env_stack, scope_depth>>

ExecPop ==
    /\ Dispatch("Pop")
    /\ IF stack = <<>>
       THEN Raise(StackUnderflow) /\ stack' = stack
       ELSE stack' = DropLast(stack, 1) /\ Advance
    /\ UNCHANGED <<env_stack, scope_depth>>

EqualResult(a, b) == {Ok(Boolean(eq(a, b)))}
NotEqualResult(a, b) == {Ok(Boolean(~eq(a, b)))}

\* what each binary arm computes from the operands it popped
binary_result(op, a, b) ==
    CASE op = "Add" -> add(a, b)
      [] op = "Sub" -> sub(a, b)
      [] op = "Mul" -> mul(a, b)
      [] op = "Div" -> div(a, b)
      [] op = "Greater" -> gt(a, b)
      [] op = "Less" -> lt(a, b)
      [] op = "Equal" -> EqualResult(a, b)
      [] op = "NotEqual" -> NotEqualResult(a, b)

\* the binary arm with the pops taken for the left operand first
BinaryArm_pops_left_first(op) ==
    /\ IF Len(stack) = 0
       THEN Raise(StackUnderflow) /\ stack' = stack
       ELSE IF Len(stack) = 1
       THEN Raise(StackUnderflow) /\ stack' = <<>>
       ELSE LET a == stack[Len(stack)]
                b == stack[Len(stack) - 1]
                rest == DropLast(stack, 2)
            IN  \E o \in binary_result(op, a, b) :
                    CASE o.r = "ok" -> stack' = Append(rest, o.v) /\ Advance
                      [] o.r = "err" -> stack' = rest /\ Raise(o.e)
                      [] o.r = "panic" -> stack' = rest /\ Abort
    /\ UNCHANGED <<env_stack, scope_depth>>

\* the shared shape of the eight binary arms: pop b, pop a, push a OP b
BinaryArm(op) ==
    /\ IF Len(stack) = 0
       THEN Raise(StackUnderflow) /\ stack' = stack
       ELSE IF Len(stack) = 1
       THEN Raise(StackUnderflow) /\ stack' = <<>>
       ELSE LET b == stack[Len(stack)]
                a == stack[Len(stack) - 1]
                rest == DropLast(stack, 2)
            IN  \E o \in binary_result(op, a, b) :
                    CASE o.r = "ok" -> stack' = Append(rest, o.v) /\ Advance
                      [] o.r = "err" -> stack' = rest /\ Raise(o.e)
                      [] o.r = "panic" -> stack' = rest /\ Abort
    /\ UNCHANGED <<env_stack, scope_depth>>

ExecAdd == Dispatch("Add") /\ BinaryArm("Add")
ExecSub == Dispatch("Sub") /\ BinaryArm("Sub")
ExecMul == Dispatch("Mul") /\ BinaryArm("Mul")
ExecDiv == Dispatch("Div") /\ BinaryArm("Div")
ExecGreater == Dispatch("Greater") /\ BinaryArm("Greater")
ExecLess == Dispatch("Less") /\ BinaryArm("Less")
ExecEqual == Dispatch("Equal") /\ BinaryArm("Equal")
ExecNotEqual == Dispatch("NotEqual") /\ BinaryArm("NotEqual")

ExecJmp ==
    /\ Dispatch("Jmp")
    /\ IF Fetch.target >= Len(instructions)
       THEN Raise(ExecutionError("Jump target out of bounds", Fetch.target))
       ELSE Goto(Fetch.target)
    /\ UNCHANGED <<stack, env_stack, scope_depth>>

\* a Jz arm without the range check on its target
ExecJz_unchecked ==
    /\ Dispatch("Jz")
    /\ IF stack = <<>>
       THEN Raise(StackUnderflow) /\ stack' = stack
       ELSE /\ stack' = DropLast(stack, 1)
            /\ IF ~is_truthy(Top(stack)) THEN Goto(Fetch.target) ELSE Advance
    /\ UNCHANGED <<env_stack, scope_depth>>

\* a Jz arm that pops its condition before it checks the target
ExecJz_pops_first ==
    /\ Dispatch("Jz")
    /\ IF stack = <<>>
       THEN Raise(StackUnderflow) /\ stack' = stack
       ELSE /\ stack' = DropLast(stack, 1)
            /\ IF Fetch.target >= Len(instructions)
               THEN Raise(InvalidJump(Fetch.target, Len(instructions)))
               ELSE IF ~is_truthy(Top(stack)) THEN Goto(Fetch.target) ELSE Advance
    /\ UNCHANGED <<env_stack, scope_depth>>

ExecJz ==
    /\ Dispatch("Jz")
    /\ IF Fetch.target >= Len(instructions)
       THEN Raise(InvalidJump(Fetch.target, Len(instructions))) /\ stack' = stack
       ELSE IF stack = <<>>
       THEN Raise(StackUnderflow) /\ stack' = stack
       ELSE /\ stack' = DropLast(stack, 1)
            /\ IF ~is_truthy(Top(stack)) THEN Goto(Fetch.target) ELSE Advance
    /\ UNCHANGED <<env_stack, scope_depth>>

ExecLabel ==
    /\ Dispatch("Label")
    /\ Advance
    /\ UNCHANGED <<stack, env_stack, scope_depth>>

\* Store that assigns through to the innermost frame already binding the name
RECURSIVE binding_frame(_, _)
binding_frame(envs, name) ==
    IF envs = <<>> THEN 0
    ELSE IF Bound(envs[Len(envs)], name) THEN Len(envs)
    ELSE binding_frame(DropLast(envs, 1), name)

ExecStore_through ==
    /\ Dispatch("Store")
    /\ IF stack = <<>>
       THEN Raise(StackUnderflow) /\ UNCHANGED <<stack, env_stack>>
       ELSE /\ stack' = DropLast(stack, 1)
            /\ IF env_stack = <<>>
               THEN Abort /\ env_stack' = env_stack
               ELSE LET found == binding_frame(env_stack, Fetch.name)
                        k == IF found = 0 THEN Len(env_stack) ELSE found
                    IN  /\ env_stack' = [env_stack EXCEPT ![k] =
                                             Insert(@, Fetch.name, Top(stack))]
                        /\ Advance
    /\ UNCHANGED scope_depth

\* current_env() panics when no frame is left
ExecStore ==
    /\ Dispatch("Store")
    /\ IF stack = <<>>
       THEN Raise(StackUnderflow) /\ UNCHANGED <<stack, env_stack>>
       ELSE /\ stack' = DropLast(stack, 1)
            /\ IF env_stack = <<>>
               THEN Abort /\ env_stack' = env_stack
               ELSE /\ env_stack' = [env_stack EXCEPT ![Len(env_stack)] =
                                        Insert(@, Fetch.name, Top(stack))]
                    /\ Advance
    /\ UNCHANGED scope_depth

\* the value is pushed with Vec::push, not VM::push
ExecLoad ==
    /\ Dispatch("Load")
    /\ LET var == get_var(env_stack, Fetch.name)
       IN  IF var.found
           THEN stack' = Append(stack, var.value) /\ Advance
           ELSE stack' = stack /\ Raise(UndefinedVariable(Fetch.name))
    /\ UNCHANGED <<env_stack, scope_depth>>

ExecBeginScope ==
    /\ Dispatch("BeginScope")
    /\ scope_depth' = scope_depth + 1
    /\ env_stack' = Append(env_stack, EmptyFrame)
    /\ Advance
    /\ UNCHANGED stack

\* EndScope that leaves the frame in place
ExecEndScope_keeps_frame ==
    /\ Dispatch("EndScope")
    /\ scope_depth' = scope_depth - 1
    /\ IF env_stack = <<>>
       THEN Raise(NoScopeToEnd) /\ env_stack' = env_stack
       ELSE env_stack' = env_stack /\ Advance
    /\ UNCHANGED stack

\* env_stack.pop() is None only when no frame at all is left
ExecEndScope ==
    /\ Dispatch("EndScope")
    /\ scope_depth' = scope_depth - 1
    /\ IF env_stack = <<>>
       THEN Raise(NoScopeToEnd) /\ env_stack' = env_stack
       ELSE env_stack' = DropLast(env_stack, 1) /\ Advance
    /\ UNCHANGED stack

ExecCreateArray ==
    /\ Dispatch("CreateArray")
    /\ stack' = Append(stack, Array(<<>>))
    /\ Advance
    /\ UNCHANGED <<env_stack, scope_depth>>

ArrayArm(aop) == Dispatch("ArrayOp") /\ Fetch.aop = aop

\* a push that puts the value in front
array_push_front(array, value) ==
    IF array.t = "Array" THEN Ok(Array(<<value>> \o array.a)) ELSE Err(NotAnArray)

\* VMArray::push for Value
array_push(array, value) ==
    IF array.t = "Array" THEN Ok(Array(Append(array.a, value))) ELSE Err(NotAnArray)

ExecArrayPush ==
    /\ ArrayArm("Push")
    /\ IF Len(stack) = 0
       THEN Raise(StackUnderflow) /\ stack' = stack
       ELSE IF Len(stack) = 1
       THEN Raise(StackUnderflow) /\ stack' = <<>>
       ELSE LET value == stack[Len(stack)]
                array == stack[Len(stack) - 1]
                rest == DropLast(stack, 2)
                o == array_push(array, value)
            IN  IF o.r = "ok"
                THEN stack' = Append(rest, o.v) /\ Advance
                ELSE stack' = rest /\ Raise(o.e)
    /\ UNCHANGED <<env_stack, scope_depth>>

\* a pop that removes the first element
array_pop_first(array) ==
    IF array.t # "Array" THEN Err(NotAnArray)
    ELSE IF array.a = <<>> THEN Err(IndexError(0, 0))
    ELSE [r |-> "ok", array |-> Array(Tail(array.a)), v |-> Head(array.a)]

\* VMArray::pop for Value: the shortened array and the removed element
array_pop(array) ==
    IF array.t # "Array" THEN Err(NotAnArray)
    ELSE IF array.a = <<>> THEN Err(IndexError(0, 0))
    ELSE [r |-> "ok", array |-> Array(DropLast(array.a, 1)), v |-> Top(array.a)]

ExecArrayPop ==
    /\ ArrayArm("Pop")
    /\ IF stack = <<>>
       THEN Raise(StackUnderflow) /\ stack' = stack
       ELSE LET o == array_pop(Top(stack))
                rest == DropLast(stack, 1)
            IN  IF o.r = "ok"
                THEN stack' = rest \o <<o.array, o.v>> /\ Advance
                ELSE stack' = rest /\ Raise(o.e)
    /\ UNCHANGED <<env_stack, scope_depth>>

\* a Get arm that puts the array back under the element
ExecArrayGet_restores ==
    /\ ArrayArm("Get")
    /\ IF Len(stack) = 0
       THEN Raise(StackUnderflow) /\ stack' = stack
       ELSE IF Len(stack) = 1
       THEN Raise(StackUnderflow) /\ stack' = <<>>
       ELSE LET index == stack[Len(stack)]
                array == stack[Len(stack) - 1]
                rest == DropLast(stack, 2)
            IN  IF index.t = "Number" /\ array.t = "Array"
                THEN LET bound_idx == check_array_bounds(index.n, Len(array.a))
                     IN  IF bound_idx.r = "ok"
                         THEN /\ stack' = rest \o <<array, array.a[bound_idx.v + 1]>>
                              /\ Advance
                         ELSE stack' = rest /\ Raise(bound_idx.e)
                ELSE stack' = rest /\ Raise(TypeError("Invalid array access"))
    /\ UNCHANGED <<env_stack, scope_depth>>

ExecArrayGet ==
    /\ ArrayArm("Get")
    /\ IF Len(stack) = 0
       THEN Raise(StackUnderflow) /\ stack' = stack
       ELSE IF Len(stack) = 1
       THEN Raise(StackUnderflow) /\ stack' = <<>>
       ELSE LET index == stack[Len(stack)]
                array == stack[Len(stack) - 1]
                rest == DropLast(stack, 2)
            IN  IF index.t = "Number" /\ array.t = "Array"
                THEN LET bound_idx == check_array_bounds(index.n, Len(array.a))
                     IN  IF bound_idx.r = "ok"
                         THEN stack' = Append(rest, array.a[bound_idx.v + 1]) /\ Advance
                         ELSE stack' = rest /\ Raise(bound_idx.e)
                ELSE stack' = rest /\ Raise(TypeError("Invalid array access"))
    /\ UNCHANGED <<env_stack, scope_depth>>

\* the names find_map can return: HashMap iteration order is unspecified, so
\* any array-valued binding of the frame may come first
array_names(env) == {name \in DOMAIN env : env[name].t = "Array"}

\* what the Set arm leaves on the operand stack after its three pops
set_result_stack(rest, array_value) == rest

\* a Set arm that drops the mutated array instead of binding it
set_rebind_dropped(envs, name, array_value) == envs

\* the frames after the Set arm has written array_value under name
set_rebind(envs, name, array_value) ==
    [envs EXCEPT ![Len(envs)] = Insert(@, name, array_value)]

ExecArraySet ==
    /\ ArrayArm("Set")
    /\ IF Len(stack) < 3
       THEN Raise(StackUnderflow) /\ stack' = <<>> /\ env_stack' = env_stack
       ELSE LET value == stack[Len(stack)]
                index == stack[Len(stack) - 1]
                array == stack[Len(stack) - 2]
                rest == DropLast(stack, 3)
            IN  IF index.t = "Number" /\ array.t = "Array"
                THEN LET bound_idx == check_array_bounds(index.n, Len(array.a))
                     IN  IF bound_idx.r # "ok"
                         THEN stack' = rest /\ env_stack' = env_stack
                                  /\ Raise(bound_idx.e)
                         ELSE LET array_value ==
                                      Array([array.a EXCEPT ![bound_idx.v + 1] = value])
                              IN  /\ stack' = set_result_stack(rest, array_value)
                                  /\ IF env_stack = <<>>
                                     THEN Abort /\ env_stack' = env_stack
                                     ELSE IF array_names(Top(env_stack)) = {}
                                     THEN Advance /\ env_stack' = env_stack
                                     ELSE \E name \in array_names(Top(env_stack)) :
                                              /\ env_stack' =
                                                     set_rebind(env_stack, name, array_value)
                                              /\ Advance
                ELSE stack' = rest /\ env_stack' = env_stack
                         /\ Raise(TypeError("Invalid array assignment"))
    /\ UNCHANGED scope_depth

\* a return without the scope_depth check
ExecuteReturn_unchecked ==
    /\ status = "running"
    /\ ip >= Len(instructions)
    /\ status' = "ok" /\ err' = err
    /\ UNCHANGED <<origin, nodes, instructions, stack, ip, env_stack, scope_depth,
                   hits, steps>>

\* the loop has left the sequence: the scope_depth check, then Ok(())
ExecuteReturn ==
    /\ status = "running"
    /\ ip >= Len(instructions)
    /\ IF scope_depth # 0
       THEN status' = "err" /\ err' = ExecutionError("Unclosed scopes", scope_depth)
       ELSE status' = "ok" /\ err' = err
    /\ UNCHANGED <<origin, nodes, instructions, stack, ip, env_stack, scope_depth,
                   hits, steps>>

(***************************************************************************)
(* The programs the model runs.                                            *)
(***************************************************************************)
Assign(name, n) == AstVarAssign(name, AstNumber(n))

\* statements without control flow, and the literal conditions
Simple == {Assign("x", 1), AstNumber(7)}
Conds == {AstNumber(1), AstNumber(0)}
LoopCond == AstBinOp(AstVarRef("i"), "Less", AstNumber(1))
Incr == AstVarAssign("i", AstBinOp(AstVarRef("i"), "Plus", AstNumber(1)))

\* statements nested at most d deep in Block, If and While
RECURSIVE Gen(_)
Gen(d) ==
    IF d = 0 THEN Simple
    ELSE LET P == Gen(d - 1)
         IN  P \cup {AstBlock(<<s>>) : s \in P}
               \cup {AstBlock(<<Assign("y", 2), s>>) : s \in P}
               \cup {AstIf(c, <<s>>, e) : c \in Conds, s \in P,
                                         e \in {<<>>, <<Assign("y", 2)>>}}
               \cup {AstIf(c, <<Assign("x", 1)>>, <<s>>) : c \in Conds, s \in P}
               \cup {AstWhile(AstNumber(0), <<s>>) : s \in P}
               \cup {AstWhile(LoopCond, <<s, Incr>>) : s \in P}

\* a generated statement alone, after `i = 0`, before an expression, or both
GenPrograms ==
    LET G == Gen(MaxDepth)
    IN  {<<s>> : s \in G} \cup {<<AstVarDecl("i", AstNumber(0)), s>> : s \in G}
          \cup {<<s, AstNumber(9)>> : s \in G}
          \cup {<<AstVarDecl("i", AstNumber(0)), s, AstNumber(9)>> : s \in G}

\* i = 0; while (i < N) { i = i + 1 }
CountingLoop(N) ==
    <<AstVarDecl("i", AstNumber(0)),
      AstWhile(AstBinOp(AstVarRef("i"), "Less", AstNumber(N)), <<Incr>>)>>

LoopPrograms ==
    {CountingLoop(N) : N \in 0..MaxN}
        \cup {CountingLoop(N) \o <<AstVarRef("i")>> : N \in 0..MaxN}

\* x = 5; { y = 5 }; y
ScopeLeakProgram ==
    <<AstVarDecl("x", AstNumber(5)), AstBlock(<<AstVarDecl("y", AstNumber(5))>>),
      AstVarRef("y")>>

\* x = 5; { x = 6 }; x
ShadowProgram ==
    <<AstVarDecl("x", AstNumber(5)), AstBlock(<<Assign("x", 6)>>), AstVarRef("x")>>

\* x = 5; { x = 6; x }
ShadowedLoadProgram ==
    <<AstVarDecl("x", AstNumber(5)),
      AstBlock(<<AstVarDecl("x", AstNumber(6)), AstVarRef("x")>>)>>

\* further programs that store inside a Block and load after or beside it:
\* { { y = 5 }; y }; 9     { y = 5 }; { y }     y = 1; { y = 5 }; y
ScopePrograms ==
    {ScopeLeakProgram, ShadowProgram, ShadowedLoadProgram,
     <<AstBlock(<<AstBlock(<<AstVarDecl("y", AstNumber(5))>>), AstVarRef("y")>>),
       AstNumber(9)>>,
     <<AstBlock(<<AstVarDecl("y", AstNumber(5))>>), AstBlock(<<AstVarRef("y")>>)>>,
     <<AstVarDecl("y", AstNumber(1)), AstBlock(<<Assign("y", 5)>>), AstVarRef("y")>>}

\* the literal [1, 2, .., len]
ArrayLiteral(len) == AstArray([j \in 1..len |-> AstNumber(j)])

\* x = [1..len]; x[k] = 10; x[k] + 5
ArrayAssignProgram(len, k) ==
    <<AstVarDecl("x", ArrayLiteral(len)),
      AstArrayAssign(AstVarRef("x"), AstNumber(k), AstNumber(10)),
      AstBinOp(AstArrayIndex(AstVarRef("x"), AstNumber(k)), "Plus", AstNumber(5))>>

\* x = [1..len]; x[k]
ArrayIndexProgram(len, k) ==
    <<AstVarDecl("x", ArrayLiteral(len)), AstArrayIndex(AstVarRef("x"), AstNumber(k))>>

\* x = [1, 2]; y = [3]; z = 0; x[0] = 10; x[0] + 5  (two arrays in one frame)
TwoArraysProgram ==
    <<AstVarDecl("x", ArrayLiteral(2)), AstVarDecl("y", ArrayLiteral(1)),
      AstVarDecl("z", AstNumber(0)),
      AstArrayAssign(AstVarRef("x"), AstNumber(0), AstNumber(10)),
      AstBinOp(AstArrayIndex(AstVarRef("x"), AstNumber(0)), "Plus", AstNumber(5))>>

\* one program per remaining binary operator
OperatorPrograms ==
    {<<AstBinOp(AstNumber(a), op, AstNumber(b))>> :
        a \in {3, 2}, b \in {2, 3, 0},
        op \in {"Minus", "Star", "Slash", "Greater", "Less", "Equal", "NotEqual"}}
      \cup {<<AstBinOp(AstNumber(5), op, AstNumber(1))>> : op \in {"Equal", "NotEqual"}}

\* array literals as statements: [], [1], .., after a number, and nested
LiteralPrograms ==
    {<<ArrayLiteral(len)>> : len \in 0..MaxLen}
        \cup {<<AstNumber(7), ArrayLiteral(len)>> : len \in 0..MaxLen}
        \cup {<<AstArray(<<ArrayLiteral(2), AstNumber(9), ArrayLiteral(0)>>)>>}

ArrayPrograms ==
    {ArrayAssignProgram(len, k) : len \in 0..MaxLen, k \in -1..MaxLen}
        \cup {ArrayIndexProgram(len, k) : len \in 0..MaxLen, k \in -1..MaxLen}
        \cup {TwoArraysProgram} \cup LiteralPrograms

\* a op b over the ends and the middle of the i32 range
EdgeNumbers == {I32Min, -7, -1, 0, 2, 7, I32Max}
ArithPrograms ==
    {<<AstBinOp(AstNumber(a), op, AstNumber(b))>> :
        a \in EdgeNumbers, b \in EdgeNumbers,
        op \in {"Plus", "Minus", "Star", "Slash"}}

Programs ==
    GenPrograms \cup LoopPrograms \cup ScopePrograms
        \cup ArrayPrograms \cup OperatorPrograms \cup ArithPrograms

\* hand-written instruction sequences: every operand kind under Get and Set,
\* and the instructions the compiler never emits
ArrayOf(len) == Array([j \in 1..len |-> Number(j)])
Receivers == {ArrayOf(len) : len \in 0..MaxLen} \cup {Number(1), Boolean(TRUE), Null}
Indices == {Number(k) : k \in -1..MaxLen} \cup {Null}

\* one value of every kind and shape, for the comparison instructions
Comparands ==
    {Number(5), Number(1), Number(0), Boolean(TRUE), Boolean(FALSE), Null,
     ArrayOf(0), ArrayOf(1), Array(<<Number(2)>>)}

EqualityBytecodes ==
    {<<InsPush(a), InsPush(b), Ins(op)>> :
        a \in Comparands, b \in Comparands, op \in {"Equal", "NotEqual"}}

\* a Jz over one instruction, on a condition of every kind and sign
JzOperands == Comparands \cup {Number(-1), Number(I32Min), Number(I32Max)}
JzBytecode(v) ==
    <<InsPush(Null), InsPush(v), InsJz(4), InsPush(Number(1)), InsPush(Number(2))>>
JzBytecodes == {JzBytecode(v) : v \in JzOperands}

\* every instruction that pops, on a stack of 0, 1, 2 and 3 values
PushedOperands == <<InsPush(ArrayOf(2)), InsPush(Number(0)), InsPush(Number(1))>>
PoppingInstructions ==
    {Ins(op) : op \in {"Pop", "Add", "Sub", "Mul", "Div", "Greater", "Less",
                       "Equal", "NotEqual"}}
        \cup {InsArrayOp(aop) : aop \in {"Push", "Pop", "Get", "Set"}}
        \cup {InsStore("x")}
UnderflowBytecodes ==
    {SubSeq(PushedOperands, 1, n) \o <<ins, InsLabel("end")>> :
        n \in 0..Len(PushedOperands), ins \in PoppingInstructions}
      \cup {SubSeq(PushedOperands, 1, n) \o <<InsJz(n + 1), InsLabel("end")>> :
              n \in 0..Len(PushedOperands)}

\* every pair of operand kinds under the arithmetic and ordering instructions
OperandBytecodes ==
    {<<InsPush(Null), InsPush(a), InsPush(b), Ins(op)>> :
        a \in Comparands, b \in Comparands,
        op \in {"Add", "Sub", "Mul", "Div", "Greater", "Less"}}

Bytecodes ==
    EqualityBytecodes \cup OperandBytecodes \cup JzBytecodes \cup DeepBytecodes \cup
    UnderflowBytecodes \cup
    {<<InsPush(Null), InsPush(r), InsPush(i), InsArrayOp("Get")>> :
        r \in Receivers, i \in Indices}
      \cup {<<InsPush(Null), InsPush(r), InsPush(i), InsPush(Number(10)),
              InsArrayOp("Set")>> : r \in Receivers, i \in Indices}
      \cup {<<InsPush(r), InsArrayOp("Pop"), Ins("Pop"), InsLabel("end")>> :
              r \in Receivers}
      \cup {<<InsPush(r), InsPush(Number(1)), InsArrayOp("Push")>> : r \in Receivers}
      \cup {<<Ins("EndScope"), InsPush(Number(1)), InsStore("x")>>,
            <<Ins("EndScope"), Ins("EndScope")>>,
            <<Ins("BeginScope"), InsPush(Number(1)), InsStore("x")>>,
            <<InsPush(Number(1)), InsJz(2)>>,
            <<InsPush(Number(0)), InsJz(2), InsJmp(3)>>,
            <<InsJmp(1), InsLoad("x")>>}

(***************************************************************************)
(* The caller: compile a program and execute it on the fresh VM, or        *)
(* execute a hand-written sequence.                                        *)
(***************************************************************************)
CompileAndExecute ==
    /\ status = "new"
    /\ \E ns \in Programs :
           /\ nodes' = ns
           /\ origin' = "compiler"
           /\ ExecuteEntry(run_instructions(ns))

\* the stack a run of PushLoop leaves behind when its Push fails
FilledStack == [k \in 1..max_stack_size |-> Number(1)]

\* the VM after execute(PushLoop) returned Err(StackOverflow): neither the
\* error return nor a later call of execute resets stack, ip or env_stack
PushLoopLeavesFilled ==
    (instructions = PushLoop /\ status = "err") =>
        /\ err = StackOverflow
        /\ stack = FilledStack
        /\ ip = 0
        /\ env_stack = <<EmptyFrame>>

RefillBytecodes == {<<Ins("CreateArray")>>, <<InsPush(Null)>>}

\* execute is called on the VM that a run of PushLoop left
ExecuteOnFilledVM ==
    /\ status = "new"
    /\ \E instrs \in RefillBytecodes :
           /\ nodes' = nodes
           /\ origin' = "bytecode"
           /\ instructions' = instrs
           /\ hits' = [k \in 1..Len(instrs) |-> 0]
    /\ stack' = FilledStack
    /\ ip' = 0
    /\ env_stack' = <<EmptyFrame>>
    /\ scope_depth' = 0
    /\ status' = "running"
    /\ UNCHANGED <<err, steps>>

\* the caller calls execute once more, with the same sequence, on the VM
\* whose first call returned Ok: stack, ip and env_stack are as that call left
\* them
ExecuteAgain ==
    /\ status = "ok"
    /\ origin \in {"compiler", "bytecode"}
    /\ origin' = "again"
    /\ nodes' = nodes
    /\ ExecuteEntry(instructions)

ExecuteBytecode ==
    /\ status = "new"
    /\ \E instrs \in Bytecodes :
           /\ nodes' = nodes
           /\ origin' = "bytecode"
           /\ ExecuteEntry(instrs)

Next ==
    \/ CompileAndExecute
    \/ ExecuteBytecode
    \/ ExecuteOnFilledVM
    \/ ExecuteAgain
    \/ ExecPush
    \/ ExecPop
    \/ ExecAdd
    \/ ExecSub
    \/ ExecMul
    \/ ExecDiv
    \/ ExecGreater
    \/ ExecLess
    \/ ExecEqual
    \/ ExecNotEqual
    \/ ExecJmp
    \/ ExecJz
    \/ ExecLabel
    \/ ExecStore
    \/ ExecLoad
    \/ ExecBeginScope
    \/ ExecEndScope
    \/ ExecCreateArray
    \/ ExecArrayPush
    \/ ExecArrayPop
    \/ ExecArrayGet
    \/ ExecArraySet
    \/ ExecuteReturn

Spec == Init /\ [][Next]_vars

(***************************************************************************)
(* Vocabulary of the properties.                                           *)
(***************************************************************************)
Done == status \in {"ok", "err", "panic"}
Compiled == origin = "compiler"

\* the instruction about to be dispatched has this opcode
At(op) == status = "running" /\ ip < Len(instructions) /\ Fetch.op = op
AtArray(aop) == At("ArrayOp") /\ Fetch.aop = aop
\* this step dispatched an instruction
Stepped == steps' = steps + 1

\* every statement of a statement list with the index its code starts at in
\* the final sequence, nested statements included
RECURSIVE Occ(_, _), OccAll(_, _)
Occ(node, base) ==
    {[node |-> node, at |-> base]} \cup
    CASE node.k = "If" ->
            LET c == Len(compile(node.condition))
                i == Len(compile_all(node.if_block))
            IN  OccAll(node.if_block, base + c + 1)
                    \cup OccAll(node.else_block, base + c + i + 2)
      [] node.k = "While" ->
            OccAll(node.body, base + Len(compile(node.condition)) + 1)
      [] node.k = "Block" -> OccAll(node.nodes, base + 1)
      [] OTHER -> {}
OccAll(ns, base) ==
    IF ns = <<>> THEN {}
    ELSE Occ(Head(ns), base) \cup OccAll(Tail(ns), base + Len(compile(Head(ns))))

Ifs == {o \in OccAll(nodes, 0) : o.node.k = "If"}
Whiles == {o \in OccAll(nodes, 0) : o.node.k = "While"}

\* where the parts of an If or While occurrence lie (0-based indices)
CondLen(o) == Len(compile(o.node.condition))
IfLen(o) == Len(compile_all(o.node.if_block))
ElseLen(o) == Len(compile_all(o.node.else_block))
BodyLen(o) == Len(compile_all(o.node.body))
JzAt(o) == o.at + CondLen(o)
IfRange(o) == (JzAt(o) + 1)..(JzAt(o) + IfLen(o))
IfJmpAt(o) == JzAt(o) + IfLen(o) + 1
ElseRange(o) == (IfJmpAt(o) + 1)..(IfJmpAt(o) + ElseLen(o))
AfterIf(o) == IfJmpAt(o) + ElseLen(o) + 1
WhileJmpAt(o) == JzAt(o) + BodyLen(o) + 1

JumpFree(ns) == \A k \in DOMAIN compile_all(ns) : ~IsJump(compile_all(ns)[k])
HitsIn(range, n) == \A k \in range : hits[k + 1] = n

(***************************************************************************)
(* C1: in every program run_instructions produces, every Jmp and Jz target *)
(* is below the instruction count, and executing it never fails with       *)
(* InvalidJump or with the "jump target out of bounds" execution error.    *)
(***************************************************************************)
JumpFailure ==
    /\ status = "err"
    /\ \/ err.kind = "InvalidJump"
       \/ err.kind = "ExecutionError" /\ err.message = "Jump target out of bounds"

C1_JumpTargetsInRange ==
    Compiled =>
        /\ \A k \in DOMAIN instructions :
               IsJump(instructions[k]) => instructions[k].target < Len(instructions)
        /\ ~JumpFailure

(***************************************************************************)
(* C2: in the output of run_instructions a While's Jz targets the          *)
(* instruction after its closing Jmp and that Jmp targets the first        *)
(* instruction of its condition; an If's Jz targets the first instruction  *)
(* of its else_block and its Jmp the instruction after its else_block;     *)
(* at every nesting depth, as absolute indices.                            *)
(***************************************************************************)
C2_JumpsAbsolute ==
    Compiled =>
        /\ \A o \in Ifs :
               /\ instructions[JzAt(o) + 1] = InsJz(IfJmpAt(o) + 1)
               /\ instructions[IfJmpAt(o) + 1] = InsJmp(AfterIf(o))
        /\ \A o \in Whiles :
               /\ instructions[JzAt(o) + 1] = InsJz(WhileJmpAt(o) + 1)
               /\ instructions[WhileJmpAt(o) + 1] = InsJmp(o.at)

(***************************************************************************)
(* C3: for every N, `i = 0; while (i < N) { i = i + 1 }`, with or without  *)
(* a statement after the loop, ends successfully with i = N in the global  *)
(* frame, the Store of the loop body dispatched exactly N times.           *)
(***************************************************************************)
\* the Store of the loop body is the last instruction but one of the loop
BodyStoreAt == Len(run_instructions(CountingLoop(0))) - 2

IsCountingLoop(N) ==
    /\ Compiled
    /\ nodes \in {CountingLoop(N), CountingLoop(N) \o <<AstVarRef("i")>>}

C3_CountingLoop ==
    \A N \in 0..MaxN :
        (IsCountingLoop(N) /\ Done) =>
            /\ status = "ok"
            /\ Len(env_stack) = 1
            /\ Bound(env_stack[1], "i")
            /\ env_stack[1]["i"] = Number(N)
            /\ hits[BodyStoreAt + 1] = N

(***************************************************************************)
(* C4: an If at any position, once executed, has run exactly one branch:   *)
(* with a truthy condition every instruction of if_block and none of       *)
(* else_block, with a falsy one the reverse.  Stated for the Ifs with a    *)
(* literal condition whose Jz was dispatched once in a run that ended      *)
(* successfully.                                                           *)
(***************************************************************************)
LiteralCond(o) == o.node.condition.k = "Number"
LiteralTruthy(o) == is_truthy(Number(o.node.condition.n))

RanOneBranch(o) ==
    IF LiteralTruthy(o)
    THEN /\ HitsIn(ElseRange(o), 0)
         /\ JumpFree(o.node.if_block) => HitsIn(IfRange(o), 1)
    ELSE /\ HitsIn(IfRange(o), 0)
         /\ JumpFree(o.node.else_block) => HitsIn(ElseRange(o), 1)

C4_IfRunsOneBranch ==
    (Compiled /\ status = "ok") =>
        \A o \in Ifs :
            (LiteralCond(o) /\ hits[JzAt(o) + 1] = 1) => RanOneBranch(o)

(***************************************************************************)
(* C5: a program whose last statement is an If with a truthy condition     *)
(* (its branches free of jumps, its else_block possibly empty) completes   *)
(* without an error.                                                       *)
(***************************************************************************)
EndsWithTruthyIf ==
    /\ Compiled
    /\ nodes # <<>>
    /\ LET last == nodes[Len(nodes)]
       IN  /\ last.k = "If"
           /\ last.condition.k = "Number"
           /\ is_truthy(Number(last.condition.n))
           /\ JumpFree(last.if_block)
           /\ JumpFree(last.else_block)

C5_TrailingIfHarmless == (EndsWithTruthyIf /\ Done) => status = "ok"

(***************************************************************************)
(* C6: `x = 5; { y = 5 }; y` fails with UndefinedVariable{name: "y"}, and  *)
(* a Load of a name that was stored before but is bound in no frame still  *)
(* open fails with UndefinedVariable carrying that name.                   *)
(***************************************************************************)
StoredBefore(name) ==
    \E k \in DOMAIN instructions : instructions[k] = InsStore(name) /\ hits[k] > 0
BoundNowhere(name) == \A k \in DOMAIN env_stack : ~Bound(env_stack[k], name)

C6_EndedScopeInvisible ==
    [][ /\ (Compiled' /\ nodes' = ScopeLeakProgram /\ Done') =>
               (status' = "err" /\ err' = UndefinedVariable("y"))
        /\ (At("Load") /\ Stepped /\ StoredBefore(Fetch.name)
                /\ BoundNowhere(Fetch.name)) =>
               (status' = "err" /\ err' = UndefinedVariable(Fetch.name))
      ]_vars

C6_Witness ==
    /\ Compiled
    /\ nodes = ScopeLeakProgram
    /\ status = "err"
    /\ err = UndefinedVariable("y")
    /\ StoredBefore("y")
    /\ Len(env_stack) = 1

(***************************************************************************)
(* C7: Store(name) binds name in the innermost frame and changes no other  *)
(* frame and no other binding; after `x = 5; { x = 6 }; x` the global      *)
(* frame still binds x to 5 and the final Load has pushed Number(5).       *)
(***************************************************************************)
StoreWritesInnermost ==
    LET n == Len(env_stack)
        name == Fetch.name
    IN  /\ Len(env_stack') = n
        /\ \A k \in 1..(n - 1) : env_stack'[k] = env_stack[k]
        /\ status' = "running" =>
               /\ DOMAIN env_stack'[n] = DOMAIN env_stack[n] \cup {name}
               /\ env_stack'[n][name] = Top(stack)
               /\ \A other \in DOMAIN env_stack[n] \ {name} :
                      env_stack'[n][other] = env_stack[n][other]

C7_StoreShadows ==
    [][ /\ (At("Store") /\ Stepped) => StoreWritesInnermost
        /\ (Compiled' /\ nodes' = ShadowProgram /\ Done') =>
               /\ status' = "ok"
               /\ env_stack' = <<[x |-> Number(5)]>>
               /\ stack' = <<Number(5)>>
      ]_vars

C7_Witness ==
    /\ Compiled
    /\ nodes = ShadowProgram
    /\ status = "ok"
    /\ hits[5] = 1
    /\ env_stack = <<[x |-> Number(5)]>>
    /\ stack = <<Number(5)>>

(***************************************************************************)
(* C8: `x = [1,2,3]; x[0] = 10; x[0] + 5` on a fresh VM succeeds and       *)
(* leaves Number(15) on top of the operand stack.                          *)
(***************************************************************************)
IsArrayExample == Compiled /\ nodes = ArrayAssignProgram(3, 0)

C8_ArrayExample ==
    (IsArrayExample /\ Done) =>
        /\ status = "ok"
        /\ stack # <<>>
        /\ Top(stack) = Number(15)

C8_Witness == IsArrayExample /\ status = "ok" /\ stack = <<Number(15)>>

(***************************************************************************)
(* C9: ArrayOp(Get) and ArrayOp(Set) on an array of length len with a      *)
(* Number index that is negative or >= len fail with IndexError carrying   *)
(* that index and that length; with 0 <= index < len they do not fail      *)
(* with IndexError.                                                        *)
(***************************************************************************)
IndexChecked(index, array) ==
    (index.t = "Number" /\ array.t = "Array") =>
        IF index.n < 0 \/ index.n >= Len(array.a)
        THEN status' = "err" /\ err' = IndexError(index.n, Len(array.a))
        ELSE ~(status' = "err" /\ err'.kind = "IndexError")

C9_IndexErrorExact ==
    [][ /\ (AtArray("Get") /\ Stepped /\ Len(stack) >= 2) =>
               IndexChecked(stack[Len(stack)], stack[Len(stack) - 1])
        /\ (AtArray("Set") /\ Stepped /\ Len(stack) >= 3) =>
               IndexChecked(stack[Len(stack) - 1], stack[Len(stack) - 2])
      ]_vars

C9_Witness ==
    /\ Compiled
    /\ nodes = ArrayIndexProgram(3, 3)
    /\ status = "err"
    /\ err = IndexError(3, 3)

(***************************************************************************)
(* C10: a successful ArrayOp(Set) leaves the stack two shorter than it     *)
(* found it, with the array on top, element index replaced by value.       *)
(***************************************************************************)
SetPushesArray ==
    LET n == Len(stack)
        value == stack[n]
        index == stack[n - 1]
        array == stack[n - 2]
    IN  /\ Len(stack') = n - 2
        /\ Top(stack') = Array([array.a EXCEPT ![index.n + 1] = value])

C10_SetPushesArray ==
    [][(AtArray("Set") /\ Stepped /\ status' = "running") => SetPushesArray]_vars

(***************************************************************************)
(* C11: ArrayOp(Set) leaves the environment unchanged: no frame gains or   *)
(* changes a binding in a Set step.                                        *)
(***************************************************************************)
C11_SetKeepsEnvironment ==
    [][(AtArray("Set") /\ Stepped) => env_stack' = env_stack]_vars

(***************************************************************************)
(* C12: Equal pushes Boolean(true) exactly when the two popped values are  *)
(* structurally equal (so false for every cross-type pair and for          *)
(* `5 == 1`), NotEqual pushes the negation, and neither returns an error   *)
(* when two operands are there.                                            *)
(***************************************************************************)
\* structural equality of two Values: same kind, same payload, arrays
\* element by element
RECURSIVE StructurallyEqual(_, _)
StructurallyEqual(a, b) ==
    /\ a.t = b.t
    /\ CASE a.t = "Number" -> a.n = b.n
         [] a.t = "Boolean" -> a.b = b.b
         [] a.t = "Null" -> TRUE
         [] a.t = "Array" ->
                /\ Len(a.a) = Len(b.a)
                /\ \A k \in DOMAIN a.a : StructurallyEqual(a.a[k], b.a[k])

ComparesStructurally(negated) ==
    LET n == Len(stack)
        same == StructurallyEqual(stack[n - 1], stack[n])
    IN  /\ status' = "running"
        /\ stack' = Append(DropLast(stack, 2), Boolean(same # negated))

C12_StructuralEquality ==
    [][ /\ (At("Equal") /\ Stepped /\ Len(stack) >= 2) => ComparesStructurally(FALSE)
        /\ (At("NotEqual") /\ Stepped /\ Len(stack) >= 2) => ComparesStructurally(TRUE)
      ]_vars

(***************************************************************************)
(* C13: whatever sequence is executed, the environment stack always holds  *)
(* at least one frame: the global frame is never popped.                   *)
(***************************************************************************)
C13_GlobalFrameKept == Len(env_stack) >= 1

(***************************************************************************)
(* C14: an EndScope dispatched while only the global frame is present      *)
(* fails at that instruction with NoScopeToEnd.                            *)
(***************************************************************************)
C14_EndScopeOnGlobalFails ==
    [][(At("EndScope") /\ Stepped /\ Len(env_stack) = 1) =>
           (status' = "err" /\ err' = NoScopeToEnd)]_vars

(***************************************************************************)
(* C15: the operand stack never holds more than max_stack_size values.     *)
(***************************************************************************)
C15_StackDepthBounded == Len(stack) <= max_stack_size

(***************************************************************************)
(* C16: execution is deterministic: the state before an instruction        *)
(* determines the state after it, so two VMs running the same sequence     *)
(* stay in step.  Where two runs can part, they part over the binding an   *)
(* instruction writes: no instruction has a choice between two bindings of *)
(* the innermost frame.                                                    *)
(***************************************************************************)
Rebinds(name) ==
    /\ Len(env_stack') = Len(env_stack)
    /\ name \in DOMAIN Top(env_stack')
    /\ Top(env_stack')[name] # Top(env_stack)[name]

C16_Deterministic ==
    Len(env_stack) >= 1 =>
        \A n1, n2 \in DOMAIN Top(env_stack) :
            (ENABLED (Next /\ Rebinds(n1)) /\ ENABLED (Next /\ Rebinds(n2)))
                => n1 = n2

(***************************************************************************)
(* C17: after a compiled program ran to success the stack holds one value  *)
(* per top-level expression statement; assignments, blocks, ifs and whiles *)
(* leave nothing behind.                                                   *)
(***************************************************************************)
ExpressionKinds == {"Number", "BinOp", "VarRef", "Array", "ArrayIndex"}
ExpressionStatements ==
    Cardinality({k \in DOMAIN nodes : nodes[k].k \in ExpressionKinds})

C17_StackBalanced ==
    (Compiled /\ status = "ok") => Len(stack) = ExpressionStatements

(***************************************************************************)
(* Programs of the one statement a op b with literal operands.             *)
(***************************************************************************)
IsBinaryProgram ==
    /\ Compiled
    /\ Len(nodes) = 1
    /\ nodes[1].k = "BinOp"
    /\ nodes[1].left.k = "Number"
    /\ nodes[1].right.k = "Number"
LeftLiteral == nodes[1].left.n
RightLiteral == nodes[1].right.n

\* q is a / b with the fraction dropped: the remainder a - q * b has the sign
\* of a and is smaller in magnitude than b  (b # 0)
IsTruncatedQuotient(a, b, q) ==
    LET r == a - q * b
    IN  /\ r = 0 \/ ((r > 0) = (a > 0))
        /\ b > 0 => (-b < r /\ r < b)
        /\ b < 0 => (b < r /\ b < -r)

(***************************************************************************)
(* C18: a / b leaves the quotient truncated toward zero for every int32 a  *)
(* and b # 0, and fails with DivisionByZero for b = 0.                     *)
(***************************************************************************)
C18_DivisionTruncates ==
    (IsBinaryProgram /\ nodes[1].op = "Slash" /\ Done) =>
        IF RightLiteral = 0
        THEN status = "err" /\ err = DivisionByZero
        ELSE /\ status = "ok"
             /\ Len(stack) = 1
             /\ stack[1].t = "Number"
             /\ IsTruncatedQuotient(LeftLiteral, RightLiteral, stack[1].n)

\* the exact a OP b is not an int32 value (a comparison always fits)
Overflows(op, a, b) ==
    CASE op = "Add" -> AddOverflows(a, b)
      [] op = "Sub" -> SubOverflows(a, b)
      [] op = "Mul" -> MulOverflows(a, b)
      [] op = "Div" -> a = I32Min /\ b = -1
      [] OTHER -> FALSE

NumbersOnTop ==
    /\ Len(stack) >= 2
    /\ BothNumbers(stack[Len(stack) - 1], stack[Len(stack)])

(***************************************************************************)
(* C19: Add, Sub, Mul and Div on two Numbers either push the Number that   *)
(* is the exact result or return an error; they neither abort the VM nor   *)
(* push a wrapped value.                                                   *)
(***************************************************************************)
C19_CheckedArithmetic ==
    [][\A op \in {"Add", "Sub", "Mul", "Div"} :
          (At(op) /\ Stepped /\ NumbersOnTop) =>
              /\ status' # "panic"
              /\ status' = "running" =>
                     /\ ~Overflows(op, stack[Len(stack) - 1].n, stack[Len(stack)].n)
                     /\ Top(stack').t = "Number"
      ]_vars

OrderedOps == {"Sub", "Div", "Greater", "Less"}

\* a OP b for Number operands; division by zero is the error of Div
Applied(op, a, b) ==
    CASE op = "Sub" -> Ok(Number(a - b))
      [] op = "Div" -> IF b = 0 THEN Err(DivisionByZero) ELSE Ok(Number(TruncDiv(a, b)))
      [] op = "Greater" -> Ok(Boolean(a > b))
      [] op = "Less" -> Ok(Boolean(a < b))

\* this step left the outcome o of an arm that popped two values
Leaves(o) ==
    IF o.r = "ok"
    THEN status' = "running" /\ stack' = Append(DropLast(stack, 2), o.v)
    ELSE status' = "err" /\ err' = o.e

(***************************************************************************)
(* C20: a binary instruction pops the right operand, then the left, and    *)
(* pushes left OP right; the compiled a op b leaves a OP b.  Sub, Div,     *)
(* Greater and Less tell the order apart.  The difference and the quotient *)
(* are taken where they are int32 values.                                  *)
(***************************************************************************)
C20_OperandOrder ==
    [][ /\ \A op \in OrderedOps :
              (/\ At(op) /\ Stepped /\ NumbersOnTop
               /\ ~Overflows(op, stack[Len(stack) - 1].n, stack[Len(stack)].n))
                  => Leaves(Applied(op, stack[Len(stack) - 1].n, stack[Len(stack)].n))
        /\ (/\ IsBinaryProgram /\ status = "running" /\ status' = "ok"
            /\ BinOpcode(nodes[1].op) \in OrderedOps
            /\ ~Overflows(BinOpcode(nodes[1].op), LeftLiteral, RightLiteral))
               => /\ Len(stack') = 1
                  /\ Applied(BinOpcode(nodes[1].op), LeftLiteral, RightLiteral)
                         = Ok(stack'[1])
      ]_vars

\* 3 > 2 ran and left Boolean(true)
C20_Witness ==
    /\ nodes = <<AstBinOp(AstNumber(3), "Greater", AstNumber(2))>>
    /\ Compiled
    /\ status = "ok"
    /\ stack = <<Boolean(TRUE)>>

(***************************************************************************)
(* C21: execute stops at the first failing instruction: the step that      *)
(* fails dispatches that one instruction and leaves the instruction        *)
(* pointer on it, and once the error is returned nothing runs any more, so *)
(* the stack, the environment and the pointer stay as they were.           *)
(***************************************************************************)
C21_StopsAtFirstError ==
    [][ /\ (Stepped /\ status' = "err") =>
               /\ ip' = ip
               /\ err' # NoError
               /\ hits' = [hits EXCEPT ![ip + 1] = @ + 1]
        /\ status = "err" => UNCHANGED <<stack, env_stack, ip, hits, err, status>>
      ]_vars

\* a run failed with instructions after the failing one, none of them executed
C21_Witness ==
    /\ status = "err"
    /\ ip + 1 < Len(instructions)
    /\ hits[ip + 1] = 1
    /\ \A k \in (ip + 2)..Len(instructions) : hits[k] = 0

(***************************************************************************)
(* C22: a Jz whose target is not below the instruction count fails with    *)
(* InvalidJump{target, max = instruction count}, such a Jmp fails with an  *)
(* execution error, and neither moves the instruction pointer.             *)
(***************************************************************************)
TargetOutOfRange == Fetch.target >= Len(instructions)

C22_OutOfRangeJumpRejected ==
    [][ /\ (At("Jz") /\ Stepped /\ TargetOutOfRange) =>
               /\ status' = "err"
               /\ err' = InvalidJump(Fetch.target, Len(instructions))
               /\ ip' = ip
        /\ (At("Jmp") /\ Stepped /\ TargetOutOfRange) =>
               /\ status' = "err"
               /\ err'.kind = "ExecutionError"
               /\ ip' = ip
      ]_vars

\* a Jz with its target at the instruction count was rejected
C22_Witness ==
    /\ status = "err"
    /\ ip < Len(instructions)
    /\ instructions[ip + 1].op = "Jz"
    /\ instructions[ip + 1].target >= Len(instructions)
    /\ err = InvalidJump(instructions[ip + 1].target, Len(instructions))

\* how many times the run has executed instructions with this opcode
RECURSIVE ExecutedUpTo(_, _)
ExecutedUpTo(op, k) ==
    IF k = 0 THEN 0
    ELSE ExecutedUpTo(op, k - 1) + (IF instructions[k].op = op THEN hits[k] ELSE 0)
Executed(op) == ExecutedUpTo(op, Len(instructions))

\* this step is the return of execute after the pointer left the sequence
Returned == status = "running" /\ ip >= Len(instructions) /\ status' # "running"

UnclosedScopes == err.kind = "ExecutionError" /\ err.message = "Unclosed scopes"

(***************************************************************************)
(* C23: when the pointer has left the sequence, execute returns success    *)
(* exactly if as many BeginScope as EndScope instructions were executed,   *)
(* and otherwise the execution error that reports the difference; no       *)
(* instruction step reports an imbalance.                                  *)
(***************************************************************************)
C23_ScopeBalanceAtEnd ==
    [][ /\ Returned =>
               /\ status' \in {"ok", "err"}
               /\ status' = "ok" <=> Executed("BeginScope") = Executed("EndScope")
               /\ status' = "err" =>
                      /\ UnclosedScopes'
                      /\ err'.n = Executed("BeginScope") - Executed("EndScope")
        /\ Stepped => ~(status' = "err" /\ UnclosedScopes')
      ]_vars

\* a run that opened a scope and never closed it was refused at its end
C23_Witness ==
    /\ status = "err"
    /\ UnclosedScopes
    /\ ip >= Len(instructions)
    /\ Executed("BeginScope") > Executed("EndScope")

\* how deep below the top of the stack an array instruction finds its array
ArrayOperandDepth(aop) ==
    CASE aop = "Push" -> 2
      [] aop = "Pop" -> 1
      [] aop = "Get" -> 2
      [] aop = "Set" -> 3

ArrayOperand(aop) == stack[Len(stack) - ArrayOperandDepth(aop) + 1]

(***************************************************************************)
(* C24: ArrayOp(Push), ArrayOp(Pop), ArrayOp(Get) and ArrayOp(Set) fail    *)
(* with NotAnArray when the value in the array position is not an Array.   *)
(***************************************************************************)
C24_NotAnArray ==
    [][\A aop \in {"Push", "Pop", "Get", "Set"} :
          (/\ AtArray(aop) /\ Stepped
           /\ Len(stack) >= ArrayOperandDepth(aop)
           /\ ArrayOperand(aop).t # "Array")
              => (status' = "err" /\ err' = NotAnArray)
      ]_vars

(***************************************************************************)
(* C25: Add, Sub, Mul, Div, Greater and Less succeed only on two Numbers;  *)
(* with a Boolean, an Array or Null on either side they fail with          *)
(* TypeError, the two operands popped and nothing pushed.                  *)
(***************************************************************************)
C25_NumbersOnly ==
    [][\A op \in {"Add", "Sub", "Mul", "Div", "Greater", "Less"} :
          (At(op) /\ Stepped /\ Len(stack) >= 2) =>
              /\ status' = "running" => NumbersOnTop
              /\ ~NumbersOnTop =>
                     /\ status' = "err"
                     /\ err'.kind = "TypeError"
                     /\ stack' = DropLast(stack, 2)
      ]_vars

\* Greater on a Boolean and an Array failed with TypeError, leaving what was below
C25_Witness ==
    /\ status = "err"
    /\ err.kind = "TypeError"
    /\ instructions = <<InsPush(Null), InsPush(Boolean(TRUE)), InsPush(ArrayOf(0)),
                        Ins("Greater")>>
    /\ stack = <<Null>>

\* the instruction count of the statements before statement k
RECURSIVE StartOf(_)
StartOf(k) == IF k = 1 THEN 0 ELSE StartOf(k - 1) + Len(compile(nodes[k - 1]))

\* instruction i is instruction c moved by offset
Moved(c, offset, i) ==
    IF IsJump(c) THEN i = [c EXCEPT !.target = @ + offset] ELSE i = c

(***************************************************************************)
(* C26: run_instructions lays the statements' sequences end to end, in     *)
(* order; every Jmp/Jz target of statement k is raised by the instruction  *)
(* count of the statements before it and every other instruction is left   *)
(* as compiled, so the code of a top-level If or While is the same code    *)
(* shifted, whatever precedes it.                                          *)
(***************************************************************************)
C26_OffsetsAdded ==
    Compiled =>
        /\ Len(instructions) = StartOf(Len(nodes) + 1)
        /\ \A k \in DOMAIN nodes :
               LET c == compile(nodes[k])
               IN  \A j \in DOMAIN c : Moved(c[j], StartOf(k), instructions[StartOf(k) + j])

\* a program ran whose second or later statement holds a jump
C26_Witness ==
    /\ Compiled
    /\ Done
    /\ \E k \in DOMAIN nodes :
           /\ StartOf(k) > 0
           /\ nodes[k].k \in {"If", "While"}
           /\ instructions[StartOf(k) + Len(compile(nodes[k].condition)) + 1].op = "Jz"

\* falsy as the specification words it
Falsy(v) ==
    \/ v.t = "Number" /\ v.n <= 0
    \/ v.t = "Boolean" /\ v.b = FALSE
    \/ v.t = "Array" /\ Len(v.a) = 0
    \/ v.t = "Null"

(***************************************************************************)
(* C27: a Jz with its target in range pops exactly one value and jumps to  *)
(* the target exactly when that value is falsy, advancing by one           *)
(* otherwise; a Number is falsy when it is zero or negative.               *)
(***************************************************************************)
C27_JzOnFalsy ==
    [][(At("Jz") /\ Stepped /\ ~TargetOutOfRange /\ stack # <<>>) =>
           /\ status' = "running"
           /\ stack' = DropLast(stack, 1)
           /\ ip' = IF Falsy(Top(stack)) THEN Fetch.target ELSE ip + 1
      ]_vars

\* the Jz on Number(-1) jumped over the Push of 1
C27_Witness ==
    /\ instructions = JzBytecode(Number(-1))
    /\ status = "ok"
    /\ stack = <<Null, Number(2)>>

\* the frames that bind name, by their position from the global frame up
BindingFrames(name) == {k \in DOMAIN env_stack : name \in DOMAIN env_stack[k]}
Innermost(frames) == CHOOSE k \in frames : \A j \in frames : j <= k

(***************************************************************************)
(* C28: Load(name) pushes the value name has in the innermost frame that   *)
(* binds it, fails with UndefinedVariable{name} exactly when no frame      *)
(* binds it, and leaves every frame as it was.                             *)
(***************************************************************************)
C28_LoadInnermost ==
    [][(At("Load") /\ Stepped) =>
           /\ env_stack' = env_stack
           /\ IF BindingFrames(Fetch.name) = {}
              THEN /\ status' = "err"
                   /\ err' = UndefinedVariable(Fetch.name)
                   /\ stack' = stack
              ELSE /\ status' = "running"
                   /\ stack' = Append(stack,
                          env_stack[Innermost(BindingFrames(Fetch.name))][Fetch.name])
      ]_vars

\* x was loaded inside the block that shadows it: 6, with 5 still bound outside
C28_Witness ==
    /\ nodes = ShadowedLoadProgram
    /\ Len(env_stack) = 2
    /\ env_stack[1] = ("x" :> Number(5))
    /\ stack = <<Number(6)>>

\* literals: numbers, and arrays of literals; and the values they denote
RECURSIVE IsLiteral(_), LiteralValue(_)
IsLiteral(node) ==
    \/ node.k = "Number"
    \/ node.k = "Array" /\ \A j \in DOMAIN node.elements : IsLiteral(node.elements[j])
LiteralValue(node) ==
    IF node.k = "Number" THEN Number(node.n)
    ELSE Array([j \in DOMAIN node.elements |-> LiteralValue(node.elements[j])])

(***************************************************************************)
(* C29: ArrayOp(Push) pops the value, then the array, and pushes the array *)
(* with the value appended at its end; a compiled Array literal thereby    *)
(* adds one value to the stack, the Array of its elements' values in       *)
(* source order.                                                           *)
(***************************************************************************)
C29_ArrayLiteral ==
    [][ /\ (/\ AtArray("Push") /\ Stepped /\ Len(stack) >= 2
            /\ stack[Len(stack) - 1].t = "Array") =>
               /\ status' = "running"
               /\ stack' = Append(DropLast(stack, 2),
                                  Array(Append(stack[Len(stack) - 1].a, Top(stack))))
        /\ (/\ Compiled /\ Returned
            /\ \A k \in DOMAIN nodes : IsLiteral(nodes[k])) =>
               /\ status' = "ok"
               /\ stack' = [k \in DOMAIN nodes |-> LiteralValue(nodes[k])]
      ]_vars

\* 7; [1, 2] ran: the literal added the one Array [1, 2] above the 7
C29_Witness ==
    /\ nodes = <<AstNumber(7), ArrayLiteral(2)>>
    /\ status = "ok"
    /\ stack = <<Number(7), ArrayOf(2)>>

(***************************************************************************)
(* C30: ArrayOp(Pop) on a non-empty Array replaces it by the Array without *)
(* its last element and, above that, the removed element; on an empty      *)
(* Array it fails with IndexError of len 0, the Array popped and nothing   *)
(* pushed.                                                                 *)
(***************************************************************************)
C30_ArrayPop ==
    [][(AtArray("Pop") /\ Stepped /\ stack # <<>> /\ Top(stack).t = "Array") =>
           LET arr == Top(stack).a
           IN  IF Len(arr) > 0
               THEN /\ status' = "running"
                    /\ stack' = DropLast(stack, 1)
                                    \o <<Array(SubSeq(arr, 1, Len(arr) - 1)), arr[Len(arr)]>>
               ELSE /\ status' = "err"
                    /\ err'.kind = "IndexError"
                    /\ err'.len = 0
                    /\ stack' = DropLast(stack, 1)
      ]_vars

\* ArrayOp(Pop) ran on [1, 2]: [1] and, on top, 2
C30_Witness ==
    /\ Len(instructions) >= 2
    /\ instructions[1] = InsPush(ArrayOf(2))
    /\ instructions[2] = InsArrayOp("Pop")
    /\ ip = 2
    /\ stack = <<ArrayOf(1), Number(2)>>

(***************************************************************************)
(* C31: a successful ArrayOp(Get) pops the index, then the array, and      *)
(* pushes only the element at the index: the array is not put back, the    *)
(* depth drops by one, and the environment is as before.                   *)
(***************************************************************************)
C31_GetConsumesArray ==
    [][(AtArray("Get") /\ Stepped /\ status' = "running") =>
           /\ Len(stack) >= 2
           /\ Top(stack).t = "Number"
           /\ stack[Len(stack) - 1].t = "Array"
           /\ Top(stack).n \in 0..(Len(stack[Len(stack) - 1].a) - 1)
           /\ stack' = Append(DropLast(stack, 2),
                              stack[Len(stack) - 1].a[Top(stack).n + 1])
           /\ env_stack' = env_stack
      ]_vars

\* x = [1, 2]; x[1] ran: 2 alone on the stack, x still [1, 2]
C31_Witness ==
    /\ nodes = ArrayIndexProgram(2, 1)
    /\ status = "ok"
    /\ stack = <<Number(2)>>
    /\ env_stack = <<("x" :> ArrayOf(2))>>

\* how many operands an instruction pops
Needs(ins) ==
    CASE ins.op \in {"Pop", "Store", "Jz"} -> 1
      [] ins.op \in {"Add", "Sub", "Mul", "Div", "Greater", "Less", "Equal", "NotEqual"} -> 2
      [] ins.op = "ArrayOp" -> (IF ins.aop = "Pop" THEN 1 ELSE ArrayOperandDepth(ins.aop))
      [] OTHER -> 0

(***************************************************************************)
(* C32: an instruction that needs k operands fails with StackUnderflow     *)
(* exactly when the stack holds fewer than k values (Jz taken with its     *)
(* target in range).                                                       *)
(***************************************************************************)
C32_UnderflowExactly ==
    [][(/\ status = "running" /\ ip < Len(instructions) /\ Stepped
        /\ ~(Fetch.op = "Jz" /\ TargetOutOfRange)) =>
           ((status' = "err" /\ err' = StackUnderflow) <=> Len(stack) < Needs(Fetch))
      ]_vars

\* ArrayOp(Set) ran on two values and failed with StackUnderflow
C32_Witness ==
    /\ status = "err"
    /\ err = StackUnderflow
    /\ instructions = SubSeq(PushedOperands, 1, 2) \o <<InsArrayOp("Set"), InsLabel("end")>>

\* Block nesting depth of the instruction at index i (0-based), read off the
\* code: the BeginScope instructions before it less the EndScope ones
RECURSIVE NestingAt(_)
NestingAt(i) ==
    IF i = 0 THEN 0
    ELSE NestingAt(i - 1)
             + (IF instructions[i].op = "BeginScope" THEN 1 ELSE 0)
             - (IF instructions[i].op = "EndScope" THEN 1 ELSE 0)

(***************************************************************************)
(* C33: in a compiled program scopes stay balanced: at every step there is *)
(* one frame more than the Block nesting depth of the current instruction  *)
(* (so BeginScope and EndScope executions pair), and a run that reaches    *)
(* the end ends with exactly one frame and not with the 'Unclosed scopes'  *)
(* error.                                                                  *)
(***************************************************************************)
C33_ScopesBalanced ==
    Compiled =>
        /\ (status = "running" /\ ip < Len(instructions)) =>
               Len(env_stack) = 1 + NestingAt(ip)
        /\ (status \in {"ok", "err"} /\ ip >= Len(instructions)) =>
               (Len(env_stack) = 1 /\ ~UnclosedScopes)

(***************************************************************************)
(* C34: a compiled program without a While node terminates: no            *)
(* instruction is executed twice, so the run takes at most as many steps   *)
(* as there are instructions.                                              *)
(***************************************************************************)
C34_NoWhileTerminates ==
    (Compiled /\ Whiles = {}) =>
        /\ \A k \in DOMAIN hits : hits[k] <= 1
        /\ steps <= Len(instructions)

\* the ArrayOp(Set) about to run ends the code of x[index] = value with
\* literal index and value: Load x, Push, Push, ArrayOp(Set)
AssignsTo(name) ==
    /\ Compiled
    /\ AtArray("Set")
    /\ ip >= 3
    /\ instructions[ip - 2] = InsLoad(name)
    /\ instructions[ip - 1].op = "Push"
    /\ instructions[ip].op = "Push"

\* every binding of every frame but those of name is the same after the step
OthersKept(name) ==
    /\ Len(env_stack') = Len(env_stack)
    /\ \A k \in DOMAIN env_stack :
           /\ DOMAIN env_stack'[k] \ {name} = DOMAIN env_stack[k] \ {name}
           /\ \A other \in DOMAIN env_stack[k] \ {name} :
                  env_stack'[k][other] = env_stack[k][other]

(***************************************************************************)
(* C35: when the ArrayAssign x[index] = value succeeds, the binding of     *)
(* every variable other than x is unchanged, in every frame.               *)
(***************************************************************************)
C35_AssignKeepsOthers ==
    [][\A name \in {"x", "y", "z"} :
          (AssignsTo(name) /\ Stepped /\ status' = "running") => OthersKept(name)
      ]_vars

\* this step is a call of execute
ExecuteCalled == status \in {"new", "ok"} /\ status' = "running"

(***************************************************************************)
(* C36: every call of execute starts fetching at instruction 0; a second   *)
(* call on the same VM does not take over the instruction pointer the      *)
(* first call left at the end.                                             *)
(***************************************************************************)
C36_ExecuteStartsAtZero ==
    [][ExecuteCalled => ip' = 0]_vars

(***************************************************************************)
(* C37: Jz checks its target before it touches the stack: with the target  *)
(* out of range it fails whatever is on the stack, a truthy value          *)
(* included, and the stack after the failure is the stack before it.       *)
(***************************************************************************)
C37_JzChecksTargetFirst ==
    [][(At("Jz") /\ Stepped /\ TargetOutOfRange) =>
           (status' = "err" /\ err'.kind = "InvalidJump" /\ stack' = stack)
      ]_vars

\* a Jz with its target out of range failed on a truthy condition, which is
\* still on the stack
C37_Witness ==
    /\ status = "err"
    /\ err.kind = "InvalidJump"
    /\ ip < Len(instructions)
    /\ instructions[ip + 1].op = "Jz"
    /\ stack # <<>>
    /\ is_truthy(Top(stack))

====
